---- MODULE Spec2Model ----
(***************************************************************************)
(* json2srt: Whisper JSON transcripts to SRT captions (src/main.go).       *)
(*                                                                         *)
(* The model follows main.go: main scans the working directory, starts     *)
(* NumCPU workers, enqueues every discovered path on a buffered channel,   *)
(* closes it and waits; each worker selects between ctx.Done and the jobs  *)
(* channel and runs processFile, whose segment loop calls                  *)
(* extractTimestamps and appends caption blocks to a builder that is       *)
(* written, behind a BOM, to the .srt path.                                *)
(*                                                                         *)
(* Strings the code inspects (paths, token and segment text) are sequences *)
(* of one-character strings; timecodes are opaque strings, "" when empty.  *)
(***************************************************************************)
EXTENDS Naturals, Sequences, FiniteSets, TLC

VARIABLES
    dir,          \* os.ReadDir(workDir): sequence of [name, isDir], sorted by name
    files,        \* the input files' content, by path (os.ReadFile/json.Unmarshal)
    numCPU,       \* runtime.NumCPU()
    cancelled,    \* ctx.Done() is closed
    mainPc,       \* main's position
    jsonPaths,    \* main's jsonPaths slice
    nextIdx,      \* main's loop counter (spawn loop, then enqueue loop)
    jobs,         \* the jobs channel's buffer
    jobsCap,      \* the jobs channel's capacity
    jobsClosed,   \* close(jobs) has run
    wg,           \* the WaitGroup counter
    pc,           \* each worker's position
    jsonPath,     \* each worker's current job (processFile's jsonPath)
    output,       \* processFile's output.Transcription
    idx,          \* processFile's segment loop position (i, 0-based like the code)
    startTime,    \* processFile's startTime of the last iteration
    endTime,      \* processFile's endTime of the last iteration
    srtBuilder,   \* processFile's srtBuilder: the blocks appended so far
    fsOut,        \* the output files on disk, by .srt path
    results       \* per input path, the outcomes the workers reported for it

vars == <<dir, files, numCPU, cancelled, mainPc, jsonPaths, nextIdx, jobs, jobsCap,
          jobsClosed, wg, pc, jsonPath, output, idx, startTime, endTime, srtBuilder,
          fsOut, results>>

----------------------------------------------------------------------------
(* Bounds of the model *)

\* most .json files in the working directory
MaxFiles == 2
\* most CPUs (workers)
MaxWorkers == 2
\* most segments of a document in the renderer's specification
MaxSegs == 3
\* most tokens of a segment in the extractor's specification
MaxTokens == 3

----------------------------------------------------------------------------
(* strings package, on sequences of characters *)

HasPrefix(s, prefix) ==
    Len(s) >= Len(prefix) /\ SubSeq(s, 1, Len(prefix)) = prefix

HasSuffix(s, suffix) ==
    Len(s) >= Len(suffix) /\ SubSeq(s, Len(s) - Len(suffix) + 1, Len(s)) = suffix

TrimSuffix(s, suffix) ==
    IF HasSuffix(s, suffix) THEN SubSeq(s, 1, Len(s) - Len(suffix)) ELSE s

LowerChar(c) ==
    CASE c = "J" -> "j"
      [] c = "S" -> "s"
      [] c = "O" -> "o"
      [] c = "N" -> "n"
      [] c = "A" -> "a"
      [] c = "B" -> "b"
      [] OTHER -> c

ToLower(s) == [k \in 1..Len(s) |-> LowerChar(s[k])]

IsSpace(c) == c \in {" ", "\t", "\n", "\r"}

RECURSIVE TrimLeft(_)
TrimLeft(s) ==
    IF s # <<>> /\ IsSpace(Head(s)) THEN TrimLeft(Tail(s)) ELSE s

RECURSIVE TrimRight(_)
TrimRight(s) ==
    IF s # <<>> /\ IsSpace(s[Len(s)]) THEN TrimRight(SubSeq(s, 1, Len(s) - 1)) ELSE s

TrimSpace(s) == TrimRight(TrimLeft(s))

\* filepath.Ext: the suffix from the last "." of the path's last element
RECURSIVE ExtFrom(_, _)
ExtFrom(path, k) ==
    IF k < 1 \/ path[k] = "/" THEN <<>>
    ELSE IF path[k] = "." THEN SubSeq(path, k, Len(path))
    ELSE ExtFrom(path, k - 1)

Ext(path) == ExtFrom(path, Len(path))

\* filepath.Join(workDir, name)
Join(d, name) == d \o <<"/">> \o name

----------------------------------------------------------------------------
(* extractTimestamps *)

NoisePrefix == <<"[", "_">>

\* IsSpeech without its test for empty text
IsSpeechOfEmptyText(token) == ~HasPrefix(token.text, NoisePrefix)

\* the test of both scans: !strings.HasPrefix(token.Text, "[_") && token.Text != ""
IsSpeech(token) == ~HasPrefix(token.text, NoisePrefix) /\ token.text # <<>>

\* the forward scan from token k: (startTime, found)
RECURSIVE ScanForward(_, _)
ScanForward(tokens, k) ==
    IF k > Len(tokens) THEN [time |-> "", found |-> FALSE]
    ELSE IF IsSpeech(tokens[k])
         THEN [time |-> tokens[k].timestamps.from, found |-> TRUE]
         ELSE ScanForward(tokens, k + 1)

\* the reverse scan from token j down: (endTime, found)
RECURSIVE ScanBackward(_, _)
ScanBackward(tokens, j) ==
    IF j < 1 THEN [time |-> "", found |-> FALSE]
    ELSE IF IsSpeech(tokens[j])
         THEN [time |-> tokens[j].timestamps.to, found |-> TRUE]
         ELSE ScanBackward(tokens, j - 1)

\* UseSegmentTimes without its test of endTime
UseSegmentTimesStartOnly(hasValidTokens, st, et) ==
    ~hasValidTokens \/ st = ""

\* the fallback test: !hasValidTokens || startTime == "" || endTime == ""
UseSegmentTimes(hasValidTokens, st, et) ==
    ~hasValidTokens \/ st = "" \/ et = ""

extractTimestamps(segment) ==
    LET fwd == ScanForward(segment.tokens, 1)
        bwd == ScanBackward(segment.tokens, Len(segment.tokens))
        hasValidTokens == fwd.found \/ bwd.found
    IN  IF UseSegmentTimes(hasValidTokens, fwd.time, bwd.time)
        THEN [startTime |-> segment.timestamps.from,
              endTime |-> segment.timestamps.to,
              hasValidTokens |-> hasValidTokens]
        ELSE [startTime |-> fwd.time, endTime |-> bwd.time,
              hasValidTokens |-> hasValidTokens]

----------------------------------------------------------------------------
(* processFile's pure parts *)

\* srtPath := strings.TrimSuffix(jsonPath, filepath.Ext(jsonPath)) + ".srt"
SrtPath(path) == TrimSuffix(path, Ext(path)) \o <<".", "s", "r", "t">>

\* BlockIndex from a counter all workers share: the blocks in every builder
RECURSIVE BlocksInBuilders(_)
BlocksInBuilders(w) ==
    IF w = 0 THEN 0 ELSE Len(srtBuilder[w]) + BlocksInBuilders(w - 1)

BlockIndexShared(i, builder) == BlocksInBuilders(MaxWorkers) + 1

\* the number written on a block's first line: fmt.Sprintf("%d\n", i+1)
BlockIndex(i, builder) == i + 1

\* SkipSegment that skips only when both bounds are empty
SkipSegmentBothEmpty(st, et) == st = "" /\ et = ""

\* if startTime == "" || endTime == "" { continue }
SkipSegment(st, et) == st = "" \/ et = ""

\* the three WriteString calls of one iteration, as one block
Block(i, builder, st, et, segment) ==
    [index |-> BlockIndex(i, builder), start |-> st, end |-> et,
     text  |-> TrimSpace(segment.text)]

\* one iteration of the segment loop, after its ctx check: the new builder
LoopBody(i, builder, segment) ==
    LET ts == extractTimestamps(segment)
    IN  IF SkipSegment(ts.startTime, ts.endTime)
        THEN builder
        ELSE Append(builder, Block(i, builder, ts.startTime, ts.endTime, segment))

\* the whole segment loop on its own, from iteration i with the builder so far
RECURSIVE RenderFrom(_, _, _)
RenderFrom(segs, i, builder) ==
    IF i >= Len(segs) THEN builder
    ELSE RenderFrom(segs, i + 1, LoopBody(i, builder, segs[i + 1]))

BOM == <<239, 187, 191>>

\* dataToWrite := append(bom, content...)
DataToWrite(builder) == [bom |-> BOM, content |-> builder]

NoData == [bom |-> <<>>, content |-> <<>>]

\* a missing output file, and one os.WriteFile truncated before it failed
Absent == [exists |-> FALSE, data |-> NoData]
Truncated == [exists |-> TRUE, data |-> NoData]

\* IsNil as a test of length: an empty list counts as missing
IsNilOrEmpty(transcription) == ~transcription.present \/ Len(transcription.segs) = 0

\* output.Transcription == nil
IsNil(transcription) == ~transcription.present

----------------------------------------------------------------------------
(* The working directory and the input files *)

WorkDir == <<"/", "w">>

Workers == 1..MaxWorkers

\* the entries a directory is drawn from, in os.ReadDir's (byte) order
DirCandidates ==
    << [name |-> <<"a", ".", "J", "S", "O", "N">>, isDir |-> FALSE],
       [name |-> <<"a", ".", "j", "s", "o", "n">>, isDir |-> FALSE],
       [name |-> <<"a", ".", "t", "x", "t">>,      isDir |-> FALSE],
       [name |-> <<"b", ".", "j", "s", "o", "n">>, isDir |-> FALSE],
       [name |-> <<"d", ".", "j", "s", "o", "n">>, isDir |-> TRUE] >>

\* main's filter: !file.IsDir() && HasSuffix(ToLower(file.Name()), ".json")
IsJsonFile(file) ==
    ~file.isDir /\ HasSuffix(ToLower(file.name), <<".", "j", "s", "o", "n">>)

\* the subsequence of seq at the positions in S
RECURSIVE Pick(_, _, _)
Pick(seq, k, S) ==
    IF k > Len(seq) THEN <<>>
    ELSE (IF k \in S THEN <<seq[k]>> ELSE <<>>) \o Pick(seq, k + 1, S)

\* main's scan loop over files from position k
RECURSIVE ScanDir(_, _)
ScanDir(entries, k) ==
    IF k > Len(entries) THEN <<>>
    ELSE (IF IsJsonFile(entries[k]) THEN <<Join(WorkDir, entries[k].name)>> ELSE <<>>)
         \o ScanDir(entries, k + 1)

Range(seq) == {seq[k] : k \in 1..Len(seq)}

\* directories with at most n .json files, beside the entries main passes over
Dirs(n) ==
    LET other == {k \in 1..Len(DirCandidates) : ~IsJsonFile(DirCandidates[k])}
    IN  {Pick(DirCandidates, 1, S) : S \in
            {T \in SUBSET (1..Len(DirCandidates)) :
                /\ Cardinality(T \ other) <= n
                /\ other \subseteq T}}

AllJsonPaths == Range(ScanDir(DirCandidates, 1))

OutPaths == {SrtPath(p) : p \in AllJsonPaths}

----------------------------------------------------------------------------
(* Input documents *)

TS(from, to) == [from |-> from, to |-> to]

Tok(text, from, to) == [text |-> text, timestamps |-> TS(from, to)]

Seg(from, to, text, tokens) ==
    [timestamps |-> TS(from, to), text |-> text, tokens |-> tokens]

Present(segs) == [present |-> TRUE, segs |-> segs]
Missing == [present |-> FALSE, segs |-> <<>>]

Unreadable == [kind |-> "unreadable", transcription |-> Missing, writeFails |-> FALSE]
BadJson == [kind |-> "badjson", transcription |-> Missing, writeFails |-> FALSE]
Json(transcription, writeFails) ==
    [kind |-> "json", transcription |-> transcription, writeFails |-> writeFails]

\* sequences over S of length at most n
SeqsUpTo(S, n) == UNION {[1..k -> S] : k \in 0..n}

\* token texts: empty, a noise marker, a word, and a word that starts with "["
TokenTexts == {<<>>, <<"[", "_", "T">>, <<"h", "i">>, <<"[", "x">>}

\* the timecodes of the token at position k
FromAt(k) == <<"f1", "f2", "f3", "f4">>[k]
ToAt(k) == <<"t1", "t2", "t3", "t4">>[k]

\* the tokens at position k of a segment: a word with each time empty or naming
\* its position, or any text with both times set
TokensAt(k) ==
    {Tok(text, from, to) : text \in {<<"h", "i">>, <<"[", "x">>},
                           from \in {"", FromAt(k)}, to \in {"", ToAt(k)}}
    \cup {Tok(text, FromAt(k), ToAt(k)) : text \in TokenTexts}

TokenSeqs(n) ==
    UNION {{s \in [1..k -> UNION {TokensAt(j) : j \in 1..k}] :
                \A j \in 1..k : s[j] \in TokensAt(j)} : k \in 0..n}

HiText == <<" ", "h", " ", "i", "\n">>

\* the extractor's segments: every token pattern, every segment-level timing
ExtractSegs ==
    {Seg(from, to, HiText, tokens) :
        from \in {"", "F"}, to \in {"", "T"}, tokens \in TokenSeqs(MaxTokens)}

\* the renderer's segments: timing from one token or from the segment, or none;
\* text with white space around it, of white space alone, with none, or empty
RenderSegs ==
    {Seg(from, to, HiText, tokens) :
        from \in {"", "F"}, to \in {"", "T"},
        tokens \in {<<>>, <<Tok(<<"h", "i">>, "f1", "t1")>>}}
    \cup {Seg("F", "T", text, <<>>) : text \in {<<>>, <<"\t", " ">>, <<"x">>}}

\* the pool's documents
SkipSeg == Seg("", "T", HiText, <<Tok(<<"[", "_", "T">>, "f1", "t1")>>)
TokSeg == Seg("F", "T", HiText, <<Tok(<<"h", "i">>, "f1", "t1")>>)
PoolDocs == {<<>>, <<TokSeg>>}

FailInputs == {Unreadable, BadJson, Json(Missing, FALSE), Json(Present(<<TokSeg>>), TRUE)}

PoolInputs == FailInputs \cup {Json(Present(d), FALSE) : d \in PoolDocs}

\* the inputs of the tasks that are cancelled
CancelInputs ==
    {Unreadable, Json(Present(<<TokSeg>>), TRUE), Json(Present(<<SkipSeg, TokSeg>>), FALSE)}

RenderInputs ==
    FailInputs \cup {Json(Present(d), FALSE) : d \in SeqsUpTo(RenderSegs, MaxSegs)}

ExtractInputs == FailInputs \cup {Json(Present(<<s>>), FALSE) : s \in ExtractSegs}

----------------------------------------------------------------------------
(* Initial states *)

InitWith(dirs, inputs, cpus) ==
    /\ dir \in dirs
    /\ files \in [Range(ScanDir(dir, 1)) -> inputs]
    /\ numCPU \in cpus
    /\ cancelled = FALSE
    /\ mainPc = "scan"
    /\ jsonPaths = <<>>
    /\ nextIdx = 1
    /\ jobs = <<>>
    /\ jobsCap = 0
    /\ jobsClosed = FALSE
    /\ wg = 0
    /\ pc = [w \in Workers |-> "idle"]
    /\ jsonPath = [w \in Workers |-> <<>>]
    /\ output = [w \in Workers |-> Missing]
    /\ idx = [w \in Workers |-> 0]
    /\ startTime = [w \in Workers |-> ""]
    /\ endTime = [w \in Workers |-> ""]
    /\ srtBuilder = [w \in Workers |-> <<>>]
    /\ fsOut = [p \in OutPaths |-> Absent]
    /\ results = [p \in AllJsonPaths |-> <<>>]

Init == InitWith(Dirs(MaxFiles), PoolInputs, {1, MaxWorkers})

InitCancel == InitWith(Dirs(MaxFiles), CancelInputs, {1, MaxWorkers})

\* a directory with one .json file, a.json, among other entries
OneFileDir == Pick(DirCandidates, 1, {2, 3, 5})

InitRender == InitWith({OneFileDir}, RenderInputs, {1})

InitExtract == InitWith({OneFileDir}, ExtractInputs, {1})

----------------------------------------------------------------------------
(* main *)

envVars == <<dir, files, numCPU>>
taskVars == <<output, idx, startTime, endTime, srtBuilder>>
workerVars == <<pc, jsonPath, output, idx, startTime, endTime, srtBuilder>>

\* JobsCap with room for one job fewer
JobsCapOneShort(paths) == Len(paths) - 1

\* jobs := make(chan string, numJobs)
JobsCap(paths) == Len(paths)

\* os.ReadDir, the scan loop, the early return and make(chan)
MainScan ==
    /\ mainPc = "scan"
    /\ jsonPaths' = ScanDir(dir, 1)
    /\ IF Len(jsonPaths') = 0
       THEN mainPc' = "done" /\ jobsCap' = jobsCap
       ELSE mainPc' = "spawn" /\ jobsCap' = JobsCap(jsonPaths')
    /\ UNCHANGED <<envVars, cancelled, nextIdx, jobs, jobsClosed, wg, workerVars,
                   fsOut, results>>

\* one iteration of: for w := 1; w <= numWorkers; w++ { wg.Add(1); go worker(...) }
MainSpawn ==
    /\ mainPc = "spawn"
    /\ nextIdx <= numCPU
    /\ wg' = wg + 1
    /\ pc' = [pc EXCEPT ![nextIdx] = "select"]
    /\ IF nextIdx = numCPU
       THEN mainPc' = "enqueue" /\ nextIdx' = 1
       ELSE mainPc' = mainPc /\ nextIdx' = nextIdx + 1
    /\ UNCHANGED <<envVars, cancelled, jsonPaths, jobs, jobsCap, jobsClosed, jsonPath,
                   taskVars, fsOut, results>>

\* one iteration of: for _, path := range jsonPaths { jobs <- path }
MainEnqueue ==
    /\ mainPc = "enqueue"
    /\ nextIdx <= Len(jsonPaths)
    /\ Len(jobs) < jobsCap
    /\ jobs' = Append(jobs, jsonPaths[nextIdx])
    /\ nextIdx' = nextIdx + 1
    /\ mainPc' = IF nextIdx = Len(jsonPaths) THEN "close" ELSE mainPc
    /\ UNCHANGED <<envVars, cancelled, jsonPaths, jobsCap, jobsClosed, wg, workerVars,
                   fsOut, results>>

\* close(jobs)
MainClose ==
    /\ mainPc = "close"
    /\ jobsClosed' = TRUE
    /\ mainPc' = "wait"
    /\ UNCHANGED <<envVars, cancelled, jsonPaths, nextIdx, jobs, jobsCap, wg, workerVars,
                   fsOut, results>>

\* wg.Wait() and the closing report
MainWait ==
    /\ mainPc = "wait"
    /\ wg = 0
    /\ mainPc' = "done"
    /\ UNCHANGED <<envVars, cancelled, jsonPaths, nextIdx, jobs, jobsCap, jobsClosed, wg,
                   workerVars, fsOut, results>>

----------------------------------------------------------------------------
(* worker *)

\* a segment loop that never looks at ctx
DoneInLoopNever == FALSE

\* <-ctx.Done() can proceed: in worker's select, on processFile's entry, in its loop
DoneInSelect == cancelled
DoneOnEntry == cancelled
DoneInLoop == cancelled

\* the cases of worker's select that can proceed
SelectReady ==
    (IF DoneInSelect THEN {"done"} ELSE {})
    \cup (IF jobs # <<>> \/ jobsClosed THEN {"recv"} ELSE {})

\* AfterProcessFile of a worker that gives up on the first error
AfterProcessFileStopOnError(err) == IF err = "nil" THEN "select" ELSE "exited"

\* where the worker goes once processFile has returned err: it logs and loops
AfterProcessFile(err) == "select"

\* processFile returns: the worker's report of it
Return(w, err, written, data) ==
    /\ results' = [results EXCEPT ![jsonPath[w]] =
                      Append(@, [err |-> err, written |-> written, data |-> data])]
    /\ pc' = [pc EXCEPT ![w] = AfterProcessFile(err)]

\* select { case <-ctx.Done(): return; case jsonPath, ok := <-jobs: ... }
WorkerSelect(w) ==
    /\ pc[w] = "select"
    /\ \E c \in SelectReady :
          IF c = "done" \/ jobs = <<>>
          THEN /\ pc' = [pc EXCEPT ![w] = "exited"]
               /\ wg' = wg - 1
               /\ UNCHANGED <<jobs, jsonPath>>
          ELSE /\ jsonPath' = [jsonPath EXCEPT ![w] = Head(jobs)]
               /\ jobs' = Tail(jobs)
               /\ pc' = [pc EXCEPT ![w] = "start"]
               /\ wg' = wg
    /\ UNCHANGED <<envVars, cancelled, mainPc, jsonPaths, nextIdx, jobsCap, jobsClosed,
                   taskVars, fsOut, results>>

----------------------------------------------------------------------------
(* processFile, run by worker w *)

\* the ctx check on entry
ProcessStart(w) ==
    /\ pc[w] = "start"
    /\ IF DoneOnEntry
       THEN Return(w, "canceled", FALSE, NoData)
       ELSE pc' = [pc EXCEPT ![w] = "load"] /\ results' = results
    /\ UNCHANGED <<envVars, cancelled, mainPc, jsonPaths, nextIdx, jobs, jobsCap,
                   jobsClosed, wg, jsonPath, taskVars, fsOut>>

\* os.ReadFile, json.Unmarshal and the nil check
ProcessLoad(w) ==
    /\ pc[w] = "load"
    /\ LET file == files[jsonPath[w]]
       IN  IF file.kind = "unreadable"
           THEN Return(w, "read", FALSE, NoData) /\ UNCHANGED taskVars
           ELSE IF file.kind = "badjson"
           THEN Return(w, "parse", FALSE, NoData) /\ UNCHANGED taskVars
           ELSE IF IsNil(file.transcription)
           THEN Return(w, "missing", FALSE, NoData) /\ UNCHANGED taskVars
           ELSE /\ output' = [output EXCEPT ![w] = file.transcription]
                /\ idx' = [idx EXCEPT ![w] = 0]
                /\ srtBuilder' = [srtBuilder EXCEPT ![w] = <<>>]
                /\ pc' = [pc EXCEPT ![w] = "loop"]
                /\ UNCHANGED <<startTime, endTime, results>>
    /\ UNCHANGED <<envVars, cancelled, mainPc, jsonPaths, nextIdx, jobs, jobsCap,
                   jobsClosed, wg, jsonPath, fsOut>>

\* one iteration of the segment loop: the ctx check, extractTimestamps, the block
ProcessSegment(w) ==
    /\ pc[w] = "loop"
    /\ idx[w] < Len(output[w].segs)
    /\ IF DoneInLoop
       THEN Return(w, "canceled", FALSE, NoData) /\ UNCHANGED taskVars
       ELSE LET segment == output[w].segs[idx[w] + 1]
                ts == extractTimestamps(segment)
            IN  /\ startTime' = [startTime EXCEPT ![w] = ts.startTime]
                /\ endTime' = [endTime EXCEPT ![w] = ts.endTime]
                /\ srtBuilder' = [srtBuilder EXCEPT ![w] =
                                     LoopBody(idx[w], srtBuilder[w], segment)]
                /\ idx' = [idx EXCEPT ![w] = idx[w] + 1]
                /\ UNCHANGED <<output, pc, results>>
    /\ UNCHANGED <<envVars, cancelled, mainPc, jsonPaths, nextIdx, jobs, jobsCap,
                   jobsClosed, wg, jsonPath, fsOut>>

\* after the loop: os.WriteFile(srtPath, dataToWrite, 0644)
ProcessWrite(w) ==
    /\ pc[w] = "loop"
    /\ idx[w] = Len(output[w].segs)
    /\ LET srtPath == SrtPath(jsonPath[w])
           dataToWrite == DataToWrite(srtBuilder[w])
       IN  IF files[jsonPath[w]].writeFails
           THEN /\ \E truncated \in BOOLEAN :
                      fsOut' = IF truncated THEN [fsOut EXCEPT ![srtPath] = Truncated]
                                            ELSE fsOut
                /\ Return(w, "write", TRUE, dataToWrite)
           ELSE /\ fsOut' = [fsOut EXCEPT ![srtPath] =
                                [exists |-> TRUE, data |-> dataToWrite]]
                /\ Return(w, "nil", TRUE, dataToWrite)
    /\ UNCHANGED <<envVars, cancelled, mainPc, jsonPaths, nextIdx, jobs, jobsCap,
                   jobsClosed, wg, jsonPath, taskVars>>

\* the caller of worker and processFile cancels ctx
Cancel ==
    /\ ~cancelled
    /\ cancelled' = TRUE
    /\ UNCHANGED <<envVars, mainPc, jsonPaths, nextIdx, jobs, jobsCap, jobsClosed, wg,
                   workerVars, fsOut, results>>

----------------------------------------------------------------------------
(* Specifications *)

Main == MainScan \/ MainSpawn \/ MainEnqueue \/ MainClose \/ MainWait

Worker(w) ==
    WorkerSelect(w) \/ ProcessStart(w) \/ ProcessLoad(w) \/ ProcessSegment(w)
    \/ ProcessWrite(w)

Next == Main \/ \E w \in Workers : Worker(w)

NextCancel == Next \/ Cancel

Fairness == WF_vars(Next)

\* the program: main's context.Background() is never cancelled
Spec == Init /\ [][Next]_vars

\* the program under the Go scheduler: while a goroutine can run, one does
FairSpec == Spec /\ Fairness

\* worker and processFile under a ctx their caller may cancel
SpecCancel == InitCancel /\ [][NextCancel]_vars

FairSpecCancel == SpecCancel /\ Fairness

\* one file, one worker, every document of the renderer's bounds
SpecRender == InitRender /\ [][Next]_vars

\* one file, one worker, every one-segment document of the extractor's bounds
SpecExtract == InitExtract /\ [][Next]_vars

----------------------------------------------------------------------------
(* What the claims speak of *)

\* a token that is not noise: its text is non-empty and does not start with "[_"
NonNoise(token) ==
    /\ Len(token.text) > 0
    /\ ~(Len(token.text) >= 2 /\ token.text[1] = "[" /\ token.text[2] = "_")

NonNoiseAt(segment) == {k \in 1..Len(segment.tokens) : NonNoise(segment.tokens[k])}

FirstOf(S) == CHOOSE k \in S : \A j \in S : k <= j
LastOf(S) == CHOOSE k \in S : \A j \in S : k >= j

\* the tokens' own bounds: the first non-noise token's from, the last one's to
TokenStart(segment) == segment.tokens[FirstOf(NonNoiseAt(segment))].timestamps.from
TokenEnd(segment) == segment.tokens[LastOf(NonNoiseAt(segment))].timestamps.to

\* worker w has run extractTimestamps in this task: on the segment before idx[w]
Extracted(w) == idx[w] >= 1
LastSegment(w) == output[w].segs[idx[w]]

\* C2: for a segment with a non-noise token whose first such token has a non-empty
\* from and whose last such token has a non-empty to, extractTimestamps returns
\* exactly that from and that to; no other token contributes a bound.
C2_TokenBounds ==
    \A w \in Workers :
        Extracted(w) =>
            LET segment == LastSegment(w)
            IN  (/\ NonNoiseAt(segment) # {}
                 /\ TokenStart(segment) # ""
                 /\ TokenEnd(segment) # "")
                => (/\ startTime[w] = TokenStart(segment)
                    /\ endTime[w] = TokenEnd(segment))

\* C2's case: noise before, an empty-text token between and noise after the two
\* non-noise tokens that gave the bounds
C2_Witness ==
    \E w \in Workers :
        /\ Extracted(w)
        /\ Len(LastSegment(w).tokens) = 3
        /\ NonNoiseAt(LastSegment(w)) = {2}
        /\ LastSegment(w).tokens[1].text = <<"[", "_", "T">>
        /\ LastSegment(w).tokens[3].text = <<>>
        /\ startTime[w] = "f2"
        /\ endTime[w] = "t2"

\* C3: the fallback is all-or-nothing. With no non-noise token, or an empty
\* token-derived start, or an empty token-derived end, extractTimestamps returns
\* exactly the segment's (from, to); and it never returns anything but the
\* segment's pair or the tokens' pair.
C3_AllOrNothing ==
    \A w \in Workers :
        Extracted(w) =>
            LET segment == LastSegment(w)
                fallback == \/ NonNoiseAt(segment) = {}
                            \/ TokenStart(segment) = ""
                            \/ TokenEnd(segment) = ""
            IN  /\ fallback => /\ startTime[w] = segment.timestamps.from
                               /\ endTime[w] = segment.timestamps.to
                /\ \/ /\ startTime[w] = segment.timestamps.from
                      /\ endTime[w] = segment.timestamps.to
                   \/ /\ NonNoiseAt(segment) # {}
                      /\ startTime[w] = TokenStart(segment)
                      /\ endTime[w] = TokenEnd(segment)

\* C3's case: the tokens give a start but an empty end, and both bounds come from
\* the segment
C3_Witness ==
    \E w \in Workers :
        /\ Extracted(w)
        /\ NonNoiseAt(LastSegment(w)) # {}
        /\ TokenStart(LastSegment(w)) # ""
        /\ TokenEnd(LastSegment(w)) = ""
        /\ startTime[w] = "F"
        /\ endTime[w] = "T"

----------------------------------------------------------------------------
(* The renderer *)

\* the files main discovered, as the directory gives them
Discovered == Range(ScanDir(dir, 1))

\* C1: the indices of the caption blocks a task writes are 1, 2, ..., k in
\* emission order, whatever segments were skipped.
C1_GaplessIndices ==
    \A p \in AllJsonPaths : \A k \in 1..Len(results[p]) :
        results[p][k].written =>
            LET content == results[p][k].data.content
            IN  \A n \in 1..Len(content) : content[n].index = n

\* the text between a text's first and last characters that are not white space
Trimmed(text) ==
    LET black == {k \in 1..Len(text) : text[k] \notin {" ", "\t", "\n", "\r"}}
    IN  IF black = {} THEN <<>> ELSE SubSeq(text, FirstOf(black), LastOf(black))

\* a segment whose resolved start and end are both non-empty
Resolved(segment) ==
    /\ extractTimestamps(segment).startTime # ""
    /\ extractTimestamps(segment).endTime # ""

\* the captions the claim expects of a segment list: times and text, no index
ExpectedCaptions(segs) ==
    LET kept == SelectSeq(segs, Resolved)
    IN  [n \in 1..Len(kept) |->
            [start |-> extractTimestamps(kept[n]).startTime,
             end   |-> extractTimestamps(kept[n]).endTime,
             text  |-> Trimmed(kept[n].text)]]

Captions(content) ==
    [n \in 1..Len(content) |->
        [start |-> content[n].start, end |-> content[n].end, text |-> content[n].text]]

\* C5: for a document with a present segment list the blocks emitted are exactly
\* the segments whose resolved start and end are both non-empty, in segment
\* order, each with its resolved times and its trimmed text; a segment with an
\* empty resolved bound emits nothing and raises no error.
C5_EmittedCaptions ==
    \A p \in Discovered :
        (files[p].kind = "json" /\ files[p].transcription.present) =>
            \A k \in 1..Len(results[p]) :
                LET r == results[p][k]
                IN  /\ r.written
                    /\ r.err = (IF files[p].writeFails THEN "write" ELSE "nil")
                    /\ Captions(r.data.content)
                           = ExpectedCaptions(files[p].transcription.segs)

\* C5's case: a three-segment document whose middle segment alone has an empty
\* resolved bound was rendered without error to two blocks
C5_Witness ==
    \E p \in Discovered :
        /\ Len(results[p]) = 1
        /\ results[p][1].err = "nil"
        /\ Len(files[p].transcription.segs) = 3
        /\ Resolved(files[p].transcription.segs[1])
        /\ ~Resolved(files[p].transcription.segs[2])
        /\ Resolved(files[p].transcription.segs[3])
        /\ Len(results[p][1].data.content) = 2
        /\ fsOut[SrtPath(p)].data.content = results[p][1].data.content

----------------------------------------------------------------------------
(* The pool *)

\* no other discovered file has p's output path
OwnOutput(p) == \A q \in Discovered : q # p => SrtPath(q) # SrtPath(p)

HasDocument(p) == files[p].kind = "json" /\ files[p].transcription.present

\* C4: a document whose transcription list is absent makes processFile return an
\* error without writing any output file; a document whose list is present but
\* empty succeeds with zero caption blocks.
C4_MissingVersusEmpty ==
    \A p \in Discovered :
        /\ (files[p].kind = "json" /\ ~files[p].transcription.present) =>
              /\ \A k \in 1..Len(results[p]) :
                    results[p][k].err = "missing" /\ ~results[p][k].written
              /\ \A w \in Workers : jsonPath[w] = p => pc[w] # "loop"
              /\ OwnOutput(p) => fsOut[SrtPath(p)] = Absent
        /\ (HasDocument(p) /\ files[p].transcription.segs = <<>>
               /\ ~files[p].writeFails) =>
              \A k \in 1..Len(results[p]) :
                  /\ results[p][k].err = "nil"
                  /\ results[p][k].data = [bom |-> BOM, content |-> <<>>]
                  /\ OwnOutput(p) => fsOut[SrtPath(p)].exists
                                     /\ fsOut[SrtPath(p)].data.content = <<>>

\* C4's case: one batch has reported a document without its list and a document
\* with an empty list
C4_Witness ==
    \E p, q \in Discovered :
        /\ files[p].kind = "json" /\ ~files[p].transcription.present
        /\ Len(results[p]) = 1
        /\ fsOut[SrtPath(p)] = Absent
        /\ HasDocument(q) /\ files[q].transcription.segs = <<>>
        /\ Len(results[q]) = 1
        /\ fsOut[SrtPath(q)].exists

AllAttemptedOnce == \A p \in Discovered : Len(results[p]) = 1

WorkersGone == \A w \in Workers : pc[w] \in {"idle", "exited"}

\* C6: with no cancellation no file is attempted twice, main is never blocked on
\* the jobs channel, and in the end main has passed wg.Wait, every worker has
\* exited and every discovered file has been attempted exactly once, whatever
\* failed.
C6_BatchCompletes ==
    /\ [](\A p \in AllJsonPaths : Len(results[p]) <= 1)
    /\ [](mainPc = "enqueue" => Len(jobs) < jobsCap)
    /\ <>(mainPc = "done" /\ WorkersGone /\ AllAttemptedOnce)

\* C6's case: two workers have finished a batch of two files, one of which failed
C6_Witness ==
    /\ mainPc = "done"
    /\ numCPU = 2
    /\ Len(jsonPaths) = 2
    /\ \A w \in Workers : pc[w] = "exited"
    /\ AllAttemptedOnce
    /\ \E p \in Discovered : results[p][1].err # "nil"
    /\ \E p \in Discovered : results[p][1].err = "nil"

\* what processFile returns for a file processed on its own
ExpectedResult(file) ==
    IF file.kind = "unreadable"
    THEN [err |-> "read", written |-> FALSE, data |-> NoData]
    ELSE IF file.kind = "badjson"
    THEN [err |-> "parse", written |-> FALSE, data |-> NoData]
    ELSE IF ~file.transcription.present
    THEN [err |-> "missing", written |-> FALSE, data |-> NoData]
    ELSE [err |-> IF file.writeFails THEN "write" ELSE "nil",
          written |-> TRUE,
          data |-> DataToWrite(RenderFrom(file.transcription.segs, 0, <<>>))]

InProcessFile(w) == pc[w] \in {"start", "load", "loop"}

\* the output file of a reported file p that shares its output path with no other
OwnFileAsExpected(p) ==
    LET expected == ExpectedResult(files[p])
    IN  IF expected.err = "nil"
        THEN fsOut[SrtPath(p)] = [exists |-> TRUE, data |-> expected.data]
        ELSE IF expected.err = "write"
        THEN fsOut[SrtPath(p)] \in {Absent, Truncated}
        ELSE fsOut[SrtPath(p)] = Absent

\* C7: a failure of processFile is logged and the worker goes on to its select;
\* the outcome of every file, its written content or its own error, is what that
\* file gives on its own, under every interleaving, and so is its output file
\* when no other file has its output path.
C7_FailureIsolation ==
    /\ [](\A p \in Discovered : \A k \in 1..Len(results[p]) :
              /\ results[p][k] = ExpectedResult(files[p])
              /\ OwnOutput(p) => OwnFileAsExpected(p))
    /\ [][\A w \in Workers :
              (InProcessFile(w) /\ ~InProcessFile(w)') => pc'[w] = "select"]_vars

\* C7's case: a single worker reported a failure for the first file and then
\* rendered the second
C7_Witness ==
    /\ numCPU = 1
    /\ Len(jsonPaths) = 2
    /\ Len(results[jsonPaths[1]]) = 1
    /\ results[jsonPaths[1]][1].err \in {"read", "parse", "missing", "write"}
    /\ Len(results[jsonPaths[2]]) = 1
    /\ results[jsonPaths[2]][1].err = "nil"
    /\ results[jsonPaths[2]][1].data.content # <<>>

\* C8: rendering is deterministic: two files with the same document are rendered
\* to identical output, in whatever workers and under whatever interleaving.
C8_Deterministic ==
    \A p, q \in Discovered :
        (HasDocument(p) /\ HasDocument(q)
            /\ files[p].transcription = files[q].transcription) =>
            \A k \in 1..Len(results[p]) : \A j \in 1..Len(results[q]) :
                results[p][k].data = results[q][j].data

\* C8's case: two files with the same document, both rendered to a caption
C8_Witness ==
    \E p, q \in Discovered :
        /\ p # q
        /\ HasDocument(p) /\ HasDocument(q)
        /\ files[p].transcription = files[q].transcription
        /\ Len(results[p]) = 1 /\ Len(results[q]) = 1
        /\ results[p][1].data.content # <<>>
        /\ results[q][1].data.content # <<>>

\* C10: no two discovered input files have the same output path.
C10_DistinctOutputs ==
    \A k, j \in 1..Len(jsonPaths) :
        k # j => SrtPath(jsonPaths[k]) # SrtPath(jsonPaths[j])

----------------------------------------------------------------------------
(* Cancellation *)

\* worker w stands at one of processFile's ctx checks: on entry, or before a segment
AtCtxCheck(w) ==
    \/ pc[w] = "start"
    \/ pc[w] = "loop" /\ idx[w] < Len(output[w].segs)

CanceledResult == [err |-> "canceled", written |-> FALSE, data |-> NoData]

\* every spawned worker has returned
WorkersStopped == mainPc \notin {"scan", "spawn"} /\ WorkersGone

\* C9: once ctx is cancelled, a task that then passes the check on entry or a
\* check between segments returns the cancellation error and writes no file; no
\* output file ever holds a partial render; and every worker exits in the end,
\* jobs left in the queue or not.
C9_Cancellation ==
    /\ [][\A w \in Workers :
              (cancelled /\ AtCtxCheck(w) /\ <<pc[w], idx[w]>>' # <<pc[w], idx[w]>>) =>
                  /\ pc'[w] = "select"
                  /\ results'[jsonPath[w]] = Append(results[jsonPath[w]], CanceledResult)
                  /\ fsOut' = fsOut]_vars
    /\ [](\A o \in OutPaths :
              fsOut[o].exists =>
                  \/ fsOut[o] = Truncated
                  \/ \E p \in Discovered :
                        /\ SrtPath(p) = o
                        /\ fsOut[o].data = ExpectedResult(files[p]).data)
    /\ (cancelled ~> WorkersStopped)

\* C9's case: a task cancelled between two segments has returned the cancellation
\* error and left no file, and every worker has exited with a job still queued
C9_Witness ==
    /\ cancelled
    /\ WorkersStopped
    /\ jobs # <<>>
    /\ \E w \in Workers :
          /\ pc[w] = "exited"
          /\ idx[w] >= 1
          /\ idx[w] < Len(output[w].segs)
          /\ results[jsonPath[w]] = <<CanceledResult>>
          /\ fsOut[SrtPath(jsonPath[w])] = Absent
          /\ \A p \in Discovered : p # jsonPath[w] => results[p] = <<>>

====
